---- MODULE Spec2Model ----
(***************************************************************************)
(* State-machine model of api/index.py: the /analyze dispatcher, the three *)
(* model wrappers, the Cloudinary upload, the Prediction table and the     *)
(* /history and /delete routes.                                            *)
(*                                                                         *)
(* Text is a sequence of pieces: a piece is either the blank " " or an     *)
(* opaque run of non-blank characters (a word, or one of the fixed string  *)
(* literals of the source).  An optional value (a form field that may be   *)
(* absent, Python's None) is a sequence of length 0 or 1.                  *)
(***************************************************************************)
EXTENDS Integers, Sequences, FiniteSets, TLC

\* ---------------------------------------------------------------- bounds
\* largest number of rows the table holds in the model
MaxRecords == 2
\* last value of the wall clock
MaxClock == 1

\* clock ticks in one minute (the resolution strftime("%Y-%m-%d %H:%M") keeps)
TicksPerMinute == 2

\* the request threads of the server
Reqs == {"r1", "r2"}

\* ------------------------------------------------------------ text helpers
None == <<>>
Some(v) == <<v>>

Blank == " "

RECURSIVE lstrip(_)
lstrip(s) ==
  IF s = <<>> THEN <<>>
  ELSE IF Head(s) = Blank THEN lstrip(Tail(s)) ELSE s

RECURSIVE rstrip(_)
rstrip(s) ==
  IF s = <<>> THEN <<>>
  ELSE IF s[Len(s)] = Blank THEN rstrip(SubSeq(s, 1, Len(s) - 1)) ELSE s

\* str.strip()
strip(s) == rstrip(lstrip(s))

\* request.form.get(key) / request.form.get(key, default)
FormGet(form, key, default) ==
  IF form[key] = None THEN default ELSE form[key][1]

\* ------------------------------------------------------ the prompt table
prompts ==
  [describe |-> <<"Describe this image in full detail with emojis to highlight features and **bold** key elements. Be engaging and comprehensive.">>,
   caption  |-> <<"Write a detailed caption for this image, using emojis for emphasis and **bold** important words. Make it vivid and full.">>,
   objects  |-> <<"List all objects in this image in detail, with emojis next to each and **bold** the main ones. Provide full descriptions.">>,
   explain  |-> <<"Explain the scene in this image thoroughly, using emojis to illustrate points and **bold** key concepts. Be detailed and engaging.">>]

\* Mutant: the instruction is prompts["describe"] whatever the prompt_type.
PromptsGetDescribe(prompt_type) == prompts["describe"]

\* prompts.get(prompt_type, prompts["describe"])
PromptsGet(prompt_type) ==
  IF prompt_type \in DOMAIN prompts THEN prompts[prompt_type] ELSE prompts["describe"]

\* ------------------------------------------------------ model functions
\* An outcome of client.chat.completions.create: the content of the first
\* choice, or an exception carrying a message.
text_model(prompt_text, outcome) ==
  IF outcome.ok THEN strip(outcome.content)
  ELSE <<"Text model error: ">> \o outcome.msg

image_url_model(image_url, prompt_text, outcome) ==
  IF outcome.ok THEN strip(outcome.content)
  ELSE <<"Image URL model error: ">> \o outcome.msg

\* ------------------------------------------------------------ the inputs
\* values of the form fields a client can send
Modes == {None, Some(""), Some("text"), Some("url"), Some("upload"), Some("video")}
Prompts == {None, Some(<<>>), Some(<<Blank>>), Some(<<Blank, "Hello", Blank>>)}
ImageUrls == {None, Some(<<Blank>>), Some(<<"http://img/cat.png", Blank>>)}
PromptTypes == {None, Some("caption"), Some("bogus")}
\* request.files["image"]: absent, or a file part with its filename
Images == {None, Some([filename |-> <<>>]), Some([filename |-> <<"cat.jpg">>])}

\* The requests a client sends.  A field the handler does not read on the
\* route the request takes is sent absent: prompt is read in text mode only,
\* image_url in url mode only, the file part in upload mode only, and
\* prompt_type matters only when an image reaches the model.
Requests ==
  {q \in [mode : Modes, prompt : Prompts, image_url : ImageUrls, prompt_type : PromptTypes,
          image : Images] :
     /\ (q.mode # Some("text") => q.prompt = None)
     /\ (q.mode # Some("url") => q.image_url = None)
     /\ (q.mode # Some("upload") => q.image = None)
     /\ (q.prompt_type # None =>
           \/ q.mode = Some("url") /\ q.image_url \notin {None, Some(<<Blank>>)}
           \/ q.mode = Some("upload") /\ q.image \notin {None, Some([filename |-> <<>>])})}

\* Requests that bring an image to the model, with every prompt_type: the
\* four keys of the table, an unknown key, an empty one and none.
AllPromptTypes ==
  {None, Some("describe"), Some("caption"), Some("objects"), Some("explain"),
   Some("bogus"), Some("")}
PromptRequests ==
  {q \in [mode : {Some("url"), Some("upload")}, prompt : {None},
          image_url : {None, Some(<<"http://img/cat.png", Blank>>)},
          prompt_type : AllPromptTypes,
          image : {None, Some([filename |-> <<"cat.jpg">>])}] :
     /\ (q.mode = Some("url") <=> q.image_url # None)
     /\ (q.mode = Some("upload") <=> q.image # None)}

\* Requests whose Records differ in result and image_path: a text request
\* with or without a prompt, and an upload of a file.
StampRequests ==
  {q \in Requests :
     \/ q.mode = Some("text") /\ q.prompt \in {None, Some(<<Blank, "Hello", Blank>>)}
     \/ q.mode = Some("upload") /\ q.image = Some([filename |-> <<"cat.jpg">>])
                               /\ q.prompt_type = None}

\* request.form and request.files of a request
Form(q) == [mode |-> q.mode, prompt |-> q.prompt, image_url |-> q.image_url,
            prompt_type |-> q.prompt_type]
Files(q) == [image |-> q.image]

\* what the hosted model can answer
InferenceOutcomes ==
  {[ok |-> TRUE, content |-> <<"Hi", Blank, "there", Blank>>, msg |-> <<>>],
   [ok |-> FALSE, content |-> <<>>, msg |-> <<"Connection", Blank, "error.">>]}
\* what cloudinary.uploader.upload can answer
UploadOutcomes ==
  {[ok |-> TRUE, secure_url |-> <<"https://res.cloudinary.com/ai-vision-uploads/cat.jpg">>, msg |-> <<>>],
   [ok |-> FALSE, secure_url |-> <<>>, msg |-> <<"Invalid", Blank, "image", Blank, "file">>]}

\* ----------------------------------------------------------------- state
VARIABLES
  store,    \* the rows of table prediction: records id, result, image_path, timestamp
  now,      \* datetime.utcnow(), in ticks; it advances under SpecClock only
  req,      \* per request thread: the locals of analyze() and its position
  resp,     \* the response on the wire, None once the client has read it
  issued    \* history variable, kept under SpecIssued only: every id the
            \* table has handed out so far

vars == <<store, now, req, resp, issued>>

\* A thread that is not inside analyze().
Idle ==
  [pc |-> "idle", request |-> None, result |-> <<>>, image_path |-> <<>>,
   image_url |-> None, instruction |-> None, prompt |-> None, calls |-> <<>>]

Init ==
  /\ store = {}
  /\ now = 0
  /\ req = [r \in Reqs |-> Idle]
  /\ resp = None
  /\ issued = {}

\* -------------------------------------------------------- the Record Store
\* id = Column(Integer, primary_key=True) on sqlite:///app.db is an INTEGER
\* PRIMARY KEY without AUTOINCREMENT: the rowid of a new row is one more than
\* the largest rowid in the table, 1 when the table is empty.
RECURSIVE MaxId(_)
MaxId(rows) ==
  IF rows = {} THEN 0
  ELSE LET p == CHOOSE q \in rows : TRUE
           m == MaxId(rows \ {p})
       IN IF p.id > m THEN p.id ELSE m

\* Mutant: the id is the number of rows plus one.
NextRowidCount(rows) == Cardinality(rows) + 1

NextRowid(rows) == MaxId(rows) + 1

\* Mutant: the row keeps only the first piece of the result.
PredictionCut(id, result, image_path) ==
  [id |-> id, result |-> SubSeq(result, 1, 1), image_path |-> image_path, timestamp |-> now]

\* Prediction(result=result, image_path=image_path), timestamp defaulted
Prediction(id, result, image_path) ==
  [id |-> id, result |-> result, image_path |-> image_path, timestamp |-> now]

\* Prediction.query.get(id)
QueryGet(id) == {p \in store : p.id = id}

\* Mutant: order_by(Prediction.id), oldest first.
RECURSIVE OrderByIdAsc(_)
OrderByIdAsc(rows) ==
  IF rows = {} THEN <<>>
  ELSE LET low == CHOOSE p \in rows : \A q \in rows : p.id <= q.id
       IN <<low>> \o OrderByIdAsc(rows \ {low})

\* Prediction.query.order_by(Prediction.id.desc()).all()
RECURSIVE OrderByIdDesc(_)
OrderByIdDesc(rows) ==
  IF rows = {} THEN <<>>
  ELSE LET top == CHOOSE p \in rows : \A q \in rows : q.id <= p.id
       IN <<top>> \o OrderByIdDesc(rows \ {top})

\* r.timestamp.strftime("%Y-%m-%d %H:%M"): seconds are dropped
strftime(t) == t - (t % TicksPerMinute)

HistoryEntry(r) ==
  [id |-> r.id, result |-> r.result, timestamp |-> strftime(r.timestamp),
   image |-> IF r.image_path # <<>> THEN r.image_path ELSE <<>>]

history_data(rows) ==
  LET records == OrderByIdDesc(rows)
  IN [i \in 1..Len(records) |-> HistoryEntry(records[i])]

\* --------------------------------------------------------------- /analyze
\* One entry of a request's call log: a gateway call (with what was passed
\* and whether it succeeded) or the commit of the row.
Call(op, ok, url, text) == [op |-> op, ok |-> ok, url |-> url, text |-> text]

\* A response as the client sees it: the route, its status and JSON body;
\* for /analyze also the request it answers, the calls the request made and
\* the row it wrote; for /delete the id asked for.
Response(op, status, body, id, l, record) ==
  Some([op |-> op, status |-> status, body |-> body, id |-> id,
        request |-> l.request, calls |-> l.calls, record |-> record])

\* Mutant: the test is `mode is None`, an empty mode is routed.
ModeIsNone(mode) == mode = None

\* Mutant: the test is `mode == ""`, an absent mode is routed.
ModeIsEmpty(mode) == mode = Some("")

\* `if not mode` (line 124): None and "" are both falsy
ModeMissing(mode) == mode = None \/ mode = Some("")

\* Mutant: the `if prompt_text` test is missing, the model is asked even
\* when there is no prompt.
RouteTextNoTest(l) ==
  LET form == Form(l.request[1])
      prompt_text == strip(FormGet(form, "prompt", <<>>))
  IN [l EXCEPT !.prompt = Some(prompt_text \o
                   <<" Respond in full detail with emojis and **bold** text for emphasis.">>),
               !.pc = "text_model"]

\* Mutant: text_model(prompt_text) is called, without the formatting
\* instruction.
RouteTextNoSuffix(l) ==
  LET form == Form(l.request[1])
      prompt_text == strip(FormGet(form, "prompt", <<>>))
  IN IF prompt_text # <<>>
     THEN [l EXCEPT !.prompt = Some(prompt_text), !.pc = "text_model"]
     ELSE [l EXCEPT !.result = <<"Please enter a prompt.">>, !.pc = "save"]

\* mode == "text" (lines 140-145)
RouteText(l) ==
  LET form == Form(l.request[1])
      prompt_text == strip(FormGet(form, "prompt", <<>>))
  IN IF prompt_text # <<>>
     THEN [l EXCEPT !.prompt = Some(prompt_text \o
                      <<" Respond in full detail with emojis and **bold** text for emphasis.">>),
                    !.pc = "text_model"]
     ELSE [l EXCEPT !.result = <<"Please enter a prompt.">>, !.pc = "save"]

\* mode == "url" (lines 148-154)
RouteUrl(l) ==
  LET form == Form(l.request[1])
      image_url == strip(FormGet(form, "image_url", <<>>))
      prompt_type == FormGet(form, "prompt_type", "describe")
      instruction == PromptsGet(prompt_type)
  IN IF image_url # <<>>
     THEN [l EXCEPT !.image_url = Some(image_url), !.instruction = Some(instruction),
                    !.pc = "image_url_model"]
     ELSE [l EXCEPT !.instruction = Some(instruction),
                    !.result = <<"Please provide a valid image URL.">>, !.pc = "save"]

\* Mutant: the test is `"image" not in request.files` alone, a file part
\* without a filename is uploaded.
RouteUploadNoFilenameTest(l) ==
  LET form == Form(l.request[1])
      files == Files(l.request[1])
  IN IF files.image = None
     THEN [l EXCEPT !.result = <<"No image file selected.">>, !.pc = "save"]
     ELSE LET prompt_type == FormGet(form, "prompt_type", "describe")
              instruction == PromptsGet(prompt_type)
          IN [l EXCEPT !.instruction = Some(instruction), !.pc = "upload"]

\* mode == "upload", up to the upload (lines 157-162)
RouteUpload(l) ==
  LET form == Form(l.request[1])
      files == Files(l.request[1])
  IN IF files.image = None \/ files.image[1].filename = <<>>
     THEN [l EXCEPT !.result = <<"No image file selected.">>, !.pc = "save"]
     ELSE LET prompt_type == FormGet(form, "prompt_type", "describe")
              instruction == PromptsGet(prompt_type)
          IN [l EXCEPT !.instruction = Some(instruction), !.pc = "upload"]

\* Lines 139-189, up to the first call that leaves the process: the locals
\* after routing and the position the thread is at.  text_model and
\* image_url_model catch every Exception themselves and the upload sits in
\* the inner try, so no gateway failure reaches the handler of line 191.
Route(l) ==
  LET mode == Form(l.request[1]).mode
  IN IF mode = Some("text") THEN RouteText(l)
     ELSE IF mode = Some("url") THEN RouteUrl(l)
     ELSE IF mode = Some("upload") THEN RouteUpload(l)
     ELSE [l EXCEPT !.result = <<"Invalid mode.">>, !.pc = "save"]

\* Number of rows the requests in flight will still insert.  A request that
\* will write a row is let in only while the table has room for it.
Pending == Cardinality({r \in Reqs : req[r].pc # "idle"})

\* The request threads are interchangeable: a new request is given to the
\* first thread that is free.
FirstFree(r) == req[r].pc = "idle" /\ (r = "r2" => req["r1"].pc # "idle")

\* POST /analyze arrives (lines 122-162).
Analyze(r, q) ==
  /\ resp = None
  /\ FirstFree(r)
  /\ (~ModeMissing(Form(q).mode) => Cardinality(store) + Pending < MaxRecords)
  /\ LET l == [Idle EXCEPT !.request = Some(q)]
     IN IF ModeMissing(Form(q).mode)
        THEN /\ resp' = Response("analyze", 400, <<"Error: mode field is missing">>, 0, l, None)
             /\ req' = req
        ELSE /\ resp' = None
             /\ req' = [req EXCEPT ![r] = Route(l)]
  /\ UNCHANGED <<store, now, issued>>

\* result = text_model(enhanced_prompt) (line 143)
TextModel(r) ==
  /\ resp = None
  /\ req[r].pc = "text_model"
  /\ \E outcome \in InferenceOutcomes :
       req' = [req EXCEPT ![r] =
         [@ EXCEPT !.result = text_model(req[r].prompt[1], outcome),
                   !.calls = Append(@, Call("text_model", outcome.ok, <<>>, req[r].prompt[1])),
                   !.pc = "save"]]
  /\ resp' = None
  /\ UNCHANGED <<store, now, issued>>

\* Mutant: the except clause sets the result and falls through to the model
\* call with the local file name instead of a URL.
UploadFallsThrough(r) ==
  /\ resp = None
  /\ req[r].pc = "upload"
  /\ \E outcome \in UploadOutcomes :
       req' = [req EXCEPT ![r] =
         IF outcome.ok
         THEN [@ EXCEPT !.image_url = Some(outcome.secure_url),
                        !.calls = Append(@, Call("upload", TRUE, outcome.secure_url, <<>>)),
                        !.pc = "image_url_model"]
         ELSE [@ EXCEPT !.result = <<"Cloudinary upload failed: ">> \o outcome.msg,
                        !.image_url = Some(req[r].request[1].image[1].filename),
                        !.calls = Append(@, Call("upload", FALSE, <<>>, <<>>)),
                        !.pc = "image_url_model"]]
  /\ resp' = None
  /\ UNCHANGED <<store, now, issued>>

\* Mutant: a failed upload is tried again.
UploadRetry(r) ==
  /\ resp = None
  /\ req[r].pc = "upload"
  /\ \E outcome \in UploadOutcomes :
       req' = [req EXCEPT ![r] =
         IF outcome.ok
         THEN [@ EXCEPT !.image_url = Some(outcome.secure_url),
                        !.calls = Append(@, Call("upload", TRUE, outcome.secure_url, <<>>)),
                        !.pc = "image_url_model"]
         ELSE [@ EXCEPT !.calls = Append(@, Call("upload", FALSE, <<>>, <<>>))]]
  /\ resp' = None
  /\ UNCHANGED <<store, now, issued>>

\* cloudinary.uploader.upload(...) and its except clause (lines 167-176, 184-186)
Upload(r) ==
  /\ resp = None
  /\ req[r].pc = "upload"
  /\ \E outcome \in UploadOutcomes :
       req' = [req EXCEPT ![r] =
         IF outcome.ok
         THEN [@ EXCEPT !.image_url = Some(outcome.secure_url),
                        !.calls = Append(@, Call("upload", TRUE, outcome.secure_url, <<>>)),
                        !.pc = "image_url_model"]
         ELSE [@ EXCEPT !.result = <<"Cloudinary upload failed: ">> \o outcome.msg,
                        !.calls = Append(@, Call("upload", FALSE, <<>>, <<>>)),
                        !.pc = "save"]]
  /\ resp' = None
  /\ UNCHANGED <<store, now, issued>>

\* What print raises when the process cannot write to its standard output.
PrintErrors == {<<"[Errno 32]", Blank, "Broken", Blank, "pipe">>}

\* Mutant: there is no handler at line 191, the exception leaves the view
\* and the request ends with a 500 and no row.
UploadPrintFailsUnhandled(r) ==
  /\ resp = None
  /\ req[r].pc = "upload"
  /\ \E outcome \in UploadOutcomes, e \in PrintErrors :
       LET l == [req[r] EXCEPT
                  !.calls = @ \o <<Call("upload", outcome.ok, <<>>, <<>>),
                                   Call("print186", FALSE, <<>>, e)>>]
       IN resp' = Response("analyze", 500, <<"Internal Server Error">>, 0, l, None)
  /\ req' = [req EXCEPT ![r] = Idle]
  /\ UNCHANGED <<store, now, issued>>

\* The upload with a standard output that cannot be written.  print at
\* line 176 raises inside the inner try and is handled at line 184 like a
\* failed upload; print at line 186 raises inside that handler and is
\* handled at line 191.
UploadPrintFails(r) ==
  /\ resp = None
  /\ req[r].pc = "upload"
  /\ \E outcome \in UploadOutcomes, e \in PrintErrors, at186 \in BOOLEAN :
       /\ (~outcome.ok => at186)
       /\ LET uploaded == Call("upload", outcome.ok,
                                IF outcome.ok THEN outcome.secure_url ELSE <<>>, <<>>)
              inner == IF outcome.ok THEN <<"Cloudinary upload failed: ">> \o e
                       ELSE <<"Cloudinary upload failed: ">> \o outcome.msg
              faults == (IF outcome.ok THEN <<Call("print176", FALSE, <<>>, e)>> ELSE <<>>)
                        \o (IF at186 THEN <<Call("print186", FALSE, <<>>, e)>> ELSE <<>>)
          IN req' = [req EXCEPT ![r] =
               [@ EXCEPT !.result = IF at186 THEN <<"Error during processing: ">> \o e
                                    ELSE inner,
                         !.image_url = IF outcome.ok THEN Some(outcome.secure_url) ELSE @,
                         !.calls = @ \o <<uploaded>> \o faults,
                         !.pc = "save"]]
  /\ resp' = None
  /\ UNCHANGED <<store, now, issued>>

\* Mutant: the row is written as soon as the URL is known, before the model
\* is asked, and again at the end.
ImageUrlModelAfterSave(r) ==
  /\ resp = None
  /\ req[r].pc = "image_url_model"
  /\ \E outcome \in InferenceOutcomes :
       LET l == req[r]
           image_url == l.image_url[1]
           instruction == l.instruction[1]
       IN /\ store' = store \cup {Prediction(NextRowid(store), <<>>, image_url)}
          /\ req' = [req EXCEPT ![r] =
               [l EXCEPT !.result = image_url_model(image_url, instruction, outcome),
                         !.image_path = IF l.request[1].mode = Some("upload") THEN image_url ELSE @,
                         !.calls = Append(@, Call("image_url_model", outcome.ok, image_url, instruction)),
                         !.pc = "save"]]
  /\ resp' = None
  /\ UNCHANGED <<now, issued>>

\* Mutant: line 182 is missing, the uploaded URL is not kept for the row.
ImageUrlModelNoPath(r) ==
  /\ resp = None
  /\ req[r].pc = "image_url_model"
  /\ \E outcome \in InferenceOutcomes :
       LET l == req[r]
           image_url == l.image_url[1]
           instruction == l.instruction[1]
       IN req' = [req EXCEPT ![r] =
            [l EXCEPT !.result = image_url_model(image_url, instruction, outcome),
                      !.calls = Append(@, Call("image_url_model", outcome.ok, image_url, instruction)),
                      !.pc = "save"]]
  /\ resp' = None
  /\ UNCHANGED <<store, now, issued>>

\* Mutant: image_url_model lets the exception out, the handler of line 184
\* takes it for a failed upload and line 182 is not reached.
ImageUrlModelRaises(r) ==
  /\ resp = None
  /\ req[r].pc = "image_url_model"
  /\ \E outcome \in InferenceOutcomes :
       LET l == req[r]
           image_url == l.image_url[1]
           instruction == l.instruction[1]
           call == Call("image_url_model", outcome.ok, image_url, instruction)
       IN req' = [req EXCEPT ![r] =
            IF outcome.ok
            THEN [l EXCEPT !.result = image_url_model(image_url, instruction, outcome),
                           !.image_path = IF l.request[1].mode = Some("upload") THEN image_url ELSE @,
                           !.calls = Append(@, call),
                           !.pc = "save"]
            ELSE [l EXCEPT !.result = IF l.request[1].mode = Some("upload")
                                      THEN <<"Cloudinary upload failed: ">> \o outcome.msg
                                      ELSE <<"Error during processing: ">> \o outcome.msg,
                           !.calls = Append(@, call),
                           !.pc = "save"]]
  /\ resp' = None
  /\ UNCHANGED <<store, now, issued>>

\* Mutant: the URL the model was given is kept for the row in url mode too.
ImageUrlModelKeepsUrl(r) ==
  /\ resp = None
  /\ req[r].pc = "image_url_model"
  /\ \E outcome \in InferenceOutcomes :
       LET l == req[r]
           image_url == l.image_url[1]
           instruction == l.instruction[1]
       IN req' = [req EXCEPT ![r] =
            [l EXCEPT !.result = image_url_model(image_url, instruction, outcome),
                      !.image_path = image_url,
                      !.calls = Append(@, Call("image_url_model", outcome.ok, image_url, instruction)),
                      !.pc = "save"]]
  /\ resp' = None
  /\ UNCHANGED <<store, now, issued>>

\* result = image_url_model(image_url, instruction) (line 152, lines 179-182)
ImageUrlModel(r) ==
  /\ resp = None
  /\ req[r].pc = "image_url_model"
  /\ \E outcome \in InferenceOutcomes :
       LET l == req[r]
           image_url == l.image_url[1]
           instruction == l.instruction[1]
       IN req' = [req EXCEPT ![r] =
            [l EXCEPT !.result = image_url_model(image_url, instruction, outcome),
                      !.image_path = IF l.request[1].mode = Some("upload") THEN image_url ELSE @,
                      !.calls = Append(@, Call("image_url_model", outcome.ok, image_url, instruction)),
                      !.pc = "save"]]
  /\ resp' = None
  /\ UNCHANGED <<store, now, issued>>

\* Mutant: the timestamp column has onupdate=datetime.utcnow and the commit
\* touches the rows already there.
SaveRecordTouch(r) ==
  /\ resp = None
  /\ req[r].pc = "save"
  /\ LET record == Prediction(NextRowid(store), req[r].result, req[r].image_path)
         l == [req[r] EXCEPT !.calls = Append(@, Call("commit", TRUE, <<>>, <<>>))]
     IN /\ store' = {[p EXCEPT !.timestamp = now] : p \in store} \cup {record}
        /\ resp' = Response("analyze", 200, l.result, 0, l, Some(record))
        /\ req' = [req EXCEPT ![r] = Idle]
  /\ UNCHANGED now

\* record = Prediction(...); db.session.add(record); db.session.commit();
\* return jsonify({"result": result}) (lines 195-199)
SaveRecord(r) ==
  /\ resp = None
  /\ req[r].pc = "save"
  /\ LET record == Prediction(NextRowid(store), req[r].result, req[r].image_path)
         l == [req[r] EXCEPT !.calls = Append(@, Call("commit", TRUE, <<>>, <<>>))]
     IN /\ store' = store \cup {record}
        /\ resp' = Response("analyze", 200, l.result, 0, l, Some(record))
        /\ req' = [req EXCEPT ![r] = Idle]
  /\ UNCHANGED now

Save(r) ==
  /\ SaveRecord(r)
  /\ UNCHANGED issued

\* The same step, with the id it was given added to the history variable.
SaveIssued(r) ==
  /\ SaveRecord(r)
  /\ issued' = issued \cup {NextRowid(store)}

\* --------------------------------------------------------------- /history
History ==
  /\ resp = None
  /\ resp' = Response("history", 200, history_data(store), 0, Idle, None)
  /\ UNCHANGED <<store, now, req, issued>>

\* ---------------------------------------------------------- /delete/<id>
\* Mutant: the row is looked up with filter(Prediction.id <= id) and every
\* row found is deleted.
delete_recordUpTo(id) ==
  LET record == {p \in store : p.id <= id}
  IN IF record # {}
     THEN /\ store' = store \ record
          /\ resp' = Response("delete", 200, <<"deleted">>, id, Idle, None)
     ELSE /\ store' = store
          /\ resp' = Response("delete", 404, <<"not found">>, id, Idle, None)

\* Mutant: the `if record` test is missing, a row that is not there is
\* reported deleted.
delete_recordNoTest(id) ==
  /\ store' = store \ QueryGet(id)
  /\ resp' = Response("delete", 200, <<"deleted">>, id, Idle, None)

delete_record(id) ==
  LET record == QueryGet(id)
  IN IF record # {}
     THEN /\ store' = store \ record
          /\ resp' = Response("delete", 200, <<"deleted">>, id, Idle, None)
     ELSE /\ store' = store
          /\ resp' = Response("delete", 404, <<"not found">>, id, Idle, None)

Delete(id) ==
  /\ resp = None
  /\ delete_record(id)
  /\ UNCHANGED <<now, req, issued>>

\* ----------------------------------------------------------------- clock
Tick ==
  /\ resp = None
  /\ now < MaxClock
  /\ now' = now + 1
  /\ resp' = None
  /\ UNCHANGED <<store, req, issued>>

\* The client reads the response.  A response is output only: no handler
\* reads it, so taking it off the wire before the next step loses no
\* behaviour of the server.
Deliver ==
  /\ resp # None
  /\ resp' = None
  /\ UNCHANGED <<store, now, req, issued>>

\* Every step but the commit of a row.
Other ==
  \/ \E r \in Reqs, q \in Requests : Analyze(r, q)
  \/ \E r \in Reqs : TextModel(r)
  \/ \E r \in Reqs : Upload(r)
  \/ \E r \in Reqs : ImageUrlModel(r)
  \/ History
  \/ \E id \in 1..(MaxRecords + 1) : Delete(id)
  \/ Deliver

Next ==
  \/ Other
  \/ \E r \in Reqs : Save(r)

Spec == Init /\ [][Next]_vars

NextIssued ==
  \/ Other
  \/ \E r \in Reqs : SaveIssued(r)

\* The server with the history of the ids it has handed out.
SpecIssued == Init /\ [][NextIssued]_vars

NextClock ==
  \/ Next
  \/ Tick

\* The server with time passing between its steps.
SpecClock == Init /\ [][NextClock]_vars

NextStamp ==
  \/ \E r \in Reqs, q \in StampRequests : Analyze(r, q)
  \/ \E r \in Reqs : TextModel(r)
  \/ \E r \in Reqs : Upload(r)
  \/ \E r \in Reqs : ImageUrlModel(r)
  \/ \E r \in Reqs : Save(r)
  \/ History
  \/ \E id \in 1..(MaxRecords + 1) : Delete(id)
  \/ Tick
  \/ Deliver

\* The server with time passing, under text requests and uploads.
SpecStamp == Init /\ [][NextStamp]_vars

NextPrompt ==
  \/ \E r \in Reqs, q \in PromptRequests : Analyze(r, q)
  \/ \E r \in Reqs : Upload(r)
  \/ \E r \in Reqs : ImageUrlModel(r)
  \/ \E r \in Reqs : Save(r)
  \/ \E id \in 1..(MaxRecords + 1) : Delete(id)
  \/ Deliver

\* The server under image requests with every prompt_type.
SpecPrompt == Init /\ [][NextPrompt]_vars

NextFault ==
  \/ Next
  \/ \E r \in Reqs : UploadPrintFails(r)

\* The server with a standard output that can fail.
SpecFault == Init /\ [][NextFault]_vars

\* ------------------------------------------------------------ properties
\* The response on the wire, when it answers POST /analyze.
AnalyzeResponse == resp # None /\ resp[1].op = "analyze"
\* ... GET /history, DELETE /delete/<id>
HistoryResponse == resp # None /\ resp[1].op = "history"
DeleteResponse == resp # None /\ resp[1].op = "delete"

\* The gateway calls in a call log.
IsInference(c) == c.op \in {"text_model", "image_url_model"}
IsStorage(c) == c.op = "upload"
Commits(calls) == {i \in 1..Len(calls) : calls[i].op = "commit"}

\* C1 as stated: every /analyze request whose mode field is present adds
\* exactly one Record, and the response's result is the Record's result.
C1_ModePresentWritesRecord ==
  AnalyzeResponse /\ resp[1].request[1].mode # None
    => /\ resp[1].record # None
       /\ resp[1].record[1] \in store
       /\ resp[1].record[1].result = resp[1].body

\* C1, amended: every /analyze request whose mode field is present and not
\* empty adds exactly one Record to the store - the step that answers it
\* inserts one new row and no earlier step of the request touches the store
\* - and the response's result string is the result stored in that row.
C1_OneRecordPerRequest ==
  [][\A r \in Reqs :
       req'[r] # req[r] =>
         IF req'[r].pc = "idle"
         THEN /\ req[r].request[1].mode \notin {None, Some("")}
              /\ \E p \in store' \ store :
                   /\ store' = store \cup {p}
                   /\ Cardinality(store') = Cardinality(store) + 1
                   /\ resp' # None
                   /\ resp'[1].op = "analyze"
                   /\ resp'[1].request = req[r].request
                   /\ resp'[1].record = Some(p)
                   /\ resp'[1].body = p.result
                   /\ Cardinality(Commits(resp'[1].calls)) = 1
         ELSE /\ store' = store
              /\ Commits(req'[r].calls) = {}
              /\ req'[r].request[1].mode \notin {None, Some("")}]_vars

\* C1 witness: a request answered after its gateway call failed, its one
\* row in the store beside an older one.
C1_Witness ==
  /\ AnalyzeResponse
  /\ resp[1].status = 200
  /\ \E i \in 1..Len(resp[1].calls) : ~resp[1].calls[i].ok
  /\ resp[1].record[1] \in store
  /\ Cardinality(store) = 2

\* C2: a request with the mode field absent is answered 400 with the
\* missing-field message, leaves the store as it was and calls no gateway.
C2_MissingMode ==
  [][resp' # resp /\ resp' # None /\ resp'[1].op = "analyze"
       /\ resp'[1].request[1].mode = None
     => /\ resp'[1].status = 400
        /\ resp'[1].body = <<"Error: mode field is missing">>
        /\ resp'[1].calls = <<>>
        /\ resp'[1].record = None
        /\ store' = store
        /\ req' = req]_vars

\* C2 witness: the 400 answer to a request without mode, sent while the
\* store holds a row and another request is in flight.
C2_Witness ==
  /\ AnalyzeResponse
  /\ resp[1].request[1].mode = None
  /\ resp[1].status = 400
  /\ store # {}
  /\ \E r \in Reqs : req[r].pc # "idle"

\* C3 as stated: the status is 400 only when the mode field is absent, and
\* 200 for every request that supplies one, whatever its value.
C3_Status400OnlyWhenAbsent ==
  AnalyzeResponse =>
    /\ (resp[1].status = 400 <=> resp[1].request[1].mode = None)
    /\ (resp[1].request[1].mode # None => resp[1].status = 200)

\* C3, amended: the status is 400 exactly when the mode field is absent or
\* empty; every request with a non-empty mode is answered 200, and a
\* non-empty mode other than text, url and upload yields the fixed
\* invalid-mode result with no gateway call and one Record written.
C3_Status400IffMissingOrEmpty ==
  AnalyzeResponse =>
    LET a == resp[1]
        mode == a.request[1].mode
    IN /\ a.status \in {200, 400}
       /\ (a.status = 400 <=> mode \in {None, Some("")})
       /\ (mode \notin {None, Some(""), Some("text"), Some("url"), Some("upload")}
             => /\ a.status = 200
                /\ a.body = <<"Invalid mode.">>
                /\ a.calls = <<Call("commit", TRUE, <<>>, <<>>)>>
                /\ a.record # None
                /\ a.record[1] \in store
                /\ a.record[1].result = <<"Invalid mode.">>)

\* C3 witness: the answer to a request with an unknown mode.
C3_Witness ==
  /\ AnalyzeResponse
  /\ resp[1].request[1].mode = Some("video")
  /\ resp[1].status = 200
  /\ resp[1].record # None

C6_GatewaysBeforeRecord ==
  [][/\ \A r \in Reqs :
          LET c == req'[r].calls
          IN /\ Commits(c) = {}
             /\ \A i, j \in 1..Len(c) : i < j => ~(IsInference(c[i]) /\ IsStorage(c[j]))
             /\ (Len(c) > Len(req[r].calls) => store' = store)
     /\ (store' \ store # {} =>
           \E r \in Reqs :
             /\ req[r].pc = "save"
             /\ req'[r] = Idle
             /\ \A o \in Reqs \ {r} : req'[o] = req[o]
             /\ resp' # None
             /\ LET c == resp'[1].calls
                IN /\ c = Append(req[r].calls, Call("commit", TRUE, <<>>, <<>>))
                   /\ \A i \in 1..(Len(c) - 1) : IsStorage(c[i]) \/ IsInference(c[i])
                   /\ \A i, j \in 1..Len(c) :
                        i < j => ~(IsInference(c[i]) /\ IsStorage(c[j])))]_vars

\* C6 witness: the answer to a request that uploaded, asked the model and
\* then wrote its row, in that order.
C6_Witness ==
  /\ AnalyzeResponse
  /\ Len(resp[1].calls) = 3
  /\ IsStorage(resp[1].calls[1])
  /\ IsInference(resp[1].calls[2])
  /\ resp[1].calls[3].op = "commit"
  /\ resp[1].record[1] \in store

\* C7: GET /history returns one entry for each row in the store, none left
\* out and none twice, in strictly descending order of id.
C7_HistoryListsStore ==
  HistoryResponse =>
    LET h == resp[1].body
    IN /\ resp[1].status = 200
       /\ Len(h) = Cardinality(store)
       /\ \A p \in store :
            \E i \in 1..Len(h) :
              h[i].id = p.id /\ h[i].result = p.result /\ h[i].image = p.image_path
       /\ \A i, j \in 1..Len(h) : i < j => h[i].id > h[j].id

\* C7 witness: a history of two entries.
C7_Witness ==
  /\ HistoryResponse
  /\ Len(resp[1].body) = 2
  /\ Cardinality(store) = 2

\* C8: DELETE /delete/<id> for an id in the store removes that row and no
\* other, answers 200 {"status": "deleted"}, and the history of the store
\* afterwards is one entry shorter and does not hold the id.
C8_DeleteExisting ==
  [][resp = None /\ resp' # None /\ resp'[1].op = "delete"
       /\ (\E p \in store : p.id = resp'[1].id)
     => \E p \in store :
          /\ p.id = resp'[1].id
          /\ store' = store \ {p}
          /\ Cardinality(store') = Cardinality(store) - 1
          /\ resp'[1].status = 200
          /\ resp'[1].body = <<"deleted">>
          /\ Len(history_data(store')) = Len(history_data(store)) - 1
          /\ \A i \in 1..Len(history_data(store')) : history_data(store')[i].id # p.id]_vars

\* C8 witness: a row was deleted and another row is still in the store.
C8_Witness ==
  /\ DeleteResponse
  /\ resp[1].status = 200
  /\ store # {}
  /\ \A p \in store : p.id # resp[1].id

\* C9: DELETE /delete/<id> for an id not in the store answers 404
\* {"status": "not found"} and leaves the store as it was; after a delete
\* that answered "deleted" the id is not in the store, so deleting it again
\* answers "not found".
C9_DeleteMissing ==
  [][resp = None /\ resp' # None /\ resp'[1].op = "delete"
     => /\ (\A p \in store : p.id # resp'[1].id)
             => /\ resp'[1].status = 404
                /\ resp'[1].body = <<"not found">>
                /\ store' = store
        /\ \A p \in store' : p.id # resp'[1].id]_vars

\* C9 witness: "not found" for an id the table handed out earlier and whose
\* row has been deleted since, other rows being in the store.
C9_Witness ==
  /\ DeleteResponse
  /\ resp[1].status = 404
  /\ resp[1].id \in issued
  /\ store # {}

\* C10 as stated: the id given to a new row differs from the id of every row
\* created before it, deleted rows included.
C10_IdsNeverReused ==
  [][\A p \in store' \ store : p.id \notin issued]_vars

\* C11: in url and upload mode the instruction passed to the model is the
\* template of the prompt_type sent when that is describe, caption, objects
\* or explain, and the describe template when it is absent or anything else.
C11_InstructionFromPromptType ==
  /\ Cardinality({prompts.describe, prompts.caption, prompts.objects, prompts.explain}) = 4
  /\ \A l \in {req[r] : r \in Reqs} \cup {resp[i] : i \in 1..Len(resp)} :
       \A i \in 1..Len(l.calls) :
         l.calls[i].op = "image_url_model" =>
           LET pt == l.request[1].prompt_type
           IN /\ l.request[1].mode \in {Some("url"), Some("upload")}
              /\ l.calls[i].text =
                   IF pt = Some("describe") THEN prompts.describe
                   ELSE IF pt = Some("caption") THEN prompts.caption
                   ELSE IF pt = Some("objects") THEN prompts.objects
                   ELSE IF pt = Some("explain") THEN prompts.explain
                   ELSE prompts.describe

\* C11 witness: an upload request with prompt_type=objects whose model call
\* got the objects template, answered.
C11_Witness ==
  /\ AnalyzeResponse
  /\ resp[1].request[1].mode = Some("upload")
  /\ resp[1].request[1].prompt_type = Some("objects")
  /\ \E i \in 1..Len(resp[1].calls) :
       resp[1].calls[i].op = "image_url_model" /\ resp[1].calls[i].text = prompts.objects

\* C12: a text request whose prompt is absent or empty gets the fixed
\* missing-prompt result, makes no gateway call and writes one Record with
\* an empty image_path.
C12_EmptyPrompt ==
  AnalyzeResponse /\ resp[1].request[1].mode = Some("text")
    /\ resp[1].request[1].prompt \in {None, Some(<<>>)}
  => /\ resp[1].status = 200
     /\ resp[1].body = <<"Please enter a prompt.">>
     /\ resp[1].calls = <<Call("commit", TRUE, <<>>, <<>>)>>
     /\ resp[1].record # None
     /\ resp[1].record[1] \in store
     /\ resp[1].record[1].result = <<"Please enter a prompt.">>
     /\ resp[1].record[1].image_path = <<>>

\* C12 witness: the answer to a text request that sent an empty prompt.
C12_Witness ==
  /\ AnalyzeResponse
  /\ resp[1].request[1].mode = Some("text")
  /\ resp[1].request[1].prompt = Some(<<>>)
  /\ resp[1].record[1] \in store

\* C13: an upload request without a file part, or with a file part whose
\* filename is empty, gets the fixed no-file result, calls neither gateway
\* and writes one Record with an empty image_path.
C13_NoFile ==
  AnalyzeResponse /\ resp[1].request[1].mode = Some("upload")
    /\ (resp[1].request[1].image = None \/ resp[1].request[1].image[1].filename = <<>>)
  => /\ resp[1].status = 200
     /\ resp[1].body = <<"No image file selected.">>
     /\ resp[1].calls = <<Call("commit", TRUE, <<>>, <<>>)>>
     /\ resp[1].record # None
     /\ resp[1].record[1] \in store
     /\ resp[1].record[1].result = <<"No image file selected.">>
     /\ resp[1].record[1].image_path = <<>>

\* C13 witness: the answer to an upload request whose file part has an
\* empty filename.
C13_Witness ==
  /\ AnalyzeResponse
  /\ resp[1].request[1].mode = Some("upload")
  /\ resp[1].request[1].image = Some([filename |-> <<>>])
  /\ resp[1].record[1] \in store

\* The formatting instruction line 142 appends to the prompt.
FormatInstruction == <<" Respond in full detail with emojis and **bold** text for emphasis.">>

\* C14 as stated: a text request with a non-empty prompt calls the text
\* operation once with the prompt followed by the formatting instruction.
C14_PromptPassedAsSent ==
  AnalyzeResponse /\ resp[1].request[1].mode = Some("text")
    /\ resp[1].request[1].prompt \notin {None, Some(<<>>)}
  => /\ Len(resp[1].calls) = 2
     /\ resp[1].calls[1].op = "text_model"
     /\ resp[1].calls[1].text = resp[1].request[1].prompt[1] \o FormatInstruction

\* C14, amended: a text request whose prompt is not empty once the
\* whitespace around it is stripped calls the text operation once, with the
\* stripped prompt followed by the formatting instruction; the result in the
\* response is the text the operation returned, and one Record is written
\* with that result and an empty image_path.
C14_StrippedPromptPassed ==
  AnalyzeResponse /\ resp[1].request[1].mode = Some("text")
    /\ resp[1].request[1].prompt # None
    /\ strip(resp[1].request[1].prompt[1]) # <<>>
  => LET a == resp[1]
         sent == a.request[1].prompt[1]
     IN /\ Len(a.calls) = 2
        /\ a.calls[1].op = "text_model"
        /\ a.calls[1].text = strip(sent) \o FormatInstruction
        /\ (sent = <<Blank, "Hello", Blank>> => a.calls[1].text = <<"Hello">> \o FormatInstruction)
        /\ a.calls[2].op = "commit"
        /\ \E o \in InferenceOutcomes :
             /\ o.ok = a.calls[1].ok
             /\ a.body = IF o.ok THEN strip(o.content) ELSE <<"Text model error: ">> \o o.msg
        /\ a.status = 200
        /\ a.record # None
        /\ a.record[1] \in store
        /\ a.record[1].result = a.body
        /\ a.record[1].image_path = <<>>

\* C14 witness: the answer to a text request whose prompt the model
\* answered with "Hi there".
C14_Witness ==
  /\ AnalyzeResponse
  /\ resp[1].request[1].mode = Some("text")
  /\ resp[1].request[1].prompt = Some(<<Blank, "Hello", Blank>>)
  /\ resp[1].calls[1].ok
  /\ resp[1].body = <<"Hi", Blank, "there">>

\* The calls in a log that failed.
FailedCalls(calls, ops) == {i \in 1..Len(calls) : calls[i].op \in ops /\ ~calls[i].ok}

C17_NeverUpdatedInPlace ==
  [][/\ \A p \in store :
          \/ p \in store'
          \/ /\ resp' # None
             /\ resp'[1].op = "delete"
             /\ resp'[1].status = 200
             /\ resp'[1].id = p.id
             /\ \A q \in store' : q.id # p.id
     /\ (resp' # None /\ resp'[1].op = "history" => store' = store)
     /\ (resp' # None /\ resp'[1].op = "analyze" => store \subseteq store')
     /\ (req' # req => store \subseteq store')]_vars

\* C17 witness: a second Record has just been committed, at a later time
\* than the first, and the first is still there with its own timestamp.
C17_Witness ==
  /\ AnalyzeResponse
  /\ resp[1].record # None
  /\ \E p \in store :
       /\ p.id # resp[1].record[1].id
       /\ p.timestamp < resp[1].record[1].timestamp

\* The requests under way or just answered, each with the calls it made.
CallLogs ==
  {[request |-> req[r].request[1], calls |-> req[r].calls] : r \in {o \in Reqs : req[o].pc # "idle"}}
  \cup (IF AnalyzeResponse THEN {[request |-> resp[1].request[1], calls |-> resp[1].calls]} ELSE {})

StorageCalls(calls) == {i \in 1..Len(calls) : IsStorage(calls[i])}
InferenceCalls(calls) == {i \in 1..Len(calls) : IsInference(calls[i])}

\* C18: a request makes at most one storage call and at most one inference
\* call, and no gateway call after a failed one; it makes a storage call
\* only in upload mode with a file, and an inference call only in text mode
\* with a non-empty prompt, in url mode with a non-empty image_url, or in
\* upload mode after a storage call that succeeded.
C18_AtMostOneCallEach ==
  \A l \in CallLogs :
    LET q == l.request
        calls == l.calls
    IN /\ Cardinality(StorageCalls(calls)) <= 1
       /\ Cardinality(InferenceCalls(calls)) <= 1
       /\ \A i, j \in StorageCalls(calls) \cup InferenceCalls(calls) :
            i < j => calls[i].ok
       /\ StorageCalls(calls) # {} =>
            /\ q.mode = Some("upload")
            /\ q.image # None
            /\ q.image[1].filename # <<>>
       /\ InferenceCalls(calls) # {} =>
            \/ q.mode = Some("text") /\ q.prompt \notin {None, Some(<<>>)}
            \/ q.mode = Some("url") /\ q.image_url \notin {None, Some(<<>>)}
            \/ /\ q.mode = Some("upload")
               /\ \E i \in StorageCalls(calls), j \in InferenceCalls(calls) :
                    i < j /\ calls[i].ok

\* C18 witness: an upload request answered after one successful storage
\* call and one inference call.
C18_Witness ==
  /\ AnalyzeResponse
  /\ resp[1].request[1].mode = Some("upload")
  /\ Cardinality(StorageCalls(resp[1].calls)) = 1
  /\ Cardinality(InferenceCalls(resp[1].calls)) = 1

\* C19: the image_path of every Record is empty or a URL a successful
\* upload returned, and the Record a request writes has the URL returned by
\* that request's own upload or none; a request in a mode other than upload
\* writes an empty image_path.
C19_ImagePathFromOwnUpload ==
  /\ \A p \in store :
       \/ p.image_path = <<>>
       \/ \E o \in UploadOutcomes : o.ok /\ p.image_path = o.secure_url
  /\ AnalyzeResponse /\ resp[1].record # None
     => LET a == resp[1]
        IN /\ \/ a.record[1].image_path = <<>>
              \/ \E i \in 1..Len(a.calls) :
                   /\ a.calls[i].op = "upload"
                   /\ a.calls[i].ok
                   /\ a.calls[i].url = a.record[1].image_path
           /\ a.request[1].mode # Some("upload") => a.record[1].image_path = <<>>

\* C19 witness: a url request that the model answered gets a Record with an
\* empty image_path, in a store that holds the Record of an upload.
C19_Witness ==
  /\ AnalyzeResponse
  /\ resp[1].request[1].mode = Some("url")
  /\ resp[1].request[1].image_url = Some(<<"http://img/cat.png", Blank>>)
  /\ resp[1].record[1] \in store
  /\ resp[1].record[1].image_path = <<>>
  /\ \E p \in store : p.image_path # <<>>

\* C20: an upload request whose upload succeeded and whose inference call
\* failed gets the inference error as its result, and its Record keeps the
\* uploaded URL as image_path; nothing is called after the inference but
\* the commit.
C20_UploadKeptOnInferenceFailure ==
  AnalyzeResponse /\ resp[1].request[1].mode = Some("upload")
    /\ Len(resp[1].calls) >= 2
    /\ resp[1].calls[1].op = "upload" /\ resp[1].calls[1].ok
    /\ resp[1].calls[2].op = "image_url_model" /\ ~resp[1].calls[2].ok
  => LET a == resp[1]
     IN /\ a.status = 200
        /\ a.body = <<"Image URL model error: ", "Connection", Blank, "error.">>
        /\ a.body[1] # "Cloudinary upload failed: "
        /\ a.record # None
        /\ a.record[1] \in store
        /\ a.record[1].result = a.body
        /\ a.record[1].image_path = a.calls[1].url
        /\ a.record[1].image_path = <<"https://res.cloudinary.com/ai-vision-uploads/cat.jpg">>
        /\ a.calls[2].url = a.calls[1].url
        /\ Len(a.calls) = 3
        /\ a.calls[3].op = "commit"

\* C20 witness: the answer to an upload request whose upload succeeded and
\* whose inference call failed.
C20_Witness ==
  /\ AnalyzeResponse
  /\ resp[1].request[1].mode = Some("upload")
  /\ Len(resp[1].calls) = 3
  /\ resp[1].calls[1].ok
  /\ ~resp[1].calls[2].ok
  /\ resp[1].record[1].image_path # <<>>

====
